---- MODULE Spec2Model ----
(***************************************************************************)
(* Model of the trading journal's lesson engine: the lessons routes        *)
(* (create, read, edit, archive, validate, relevant), the statistics       *)
(* helper calculateConditionStats, and the trades routes that feed it      *)
(* (create, edit, close, delete) together with getRelevantLessonsForTrade   *)
(* and generateTradeNumber.                                                *)
(*                                                                         *)
(* Representation.                                                         *)
(*  - A nullable TEXT column holding JSON is [sql, json]: sql = "NULL" for *)
(*    SQL NULL, sql = "TEXT" for a stored text whose JSON.parse is json.   *)
(*    JSON.stringify(null) is the text 'null', which is not SQL NULL.      *)
(*  - A nullable number is <<>> (NULL) or <<v>>.                           *)
(*  - A nullable plain text column is NullText or the string.             *)
(*  - A conditions value is a JavaScript value: undefined, null, or an     *)
(*    object mapping the five attributes to arrays. An absent key and an   *)
(*    empty array behave alike in every use the code makes of them         *)
(*    (x?.length > 0, x?.includes(v)); both are the empty set here.        *)
(*  - win_rate and avg_pnl are exact rationals <<num, den>>. The code      *)
(*    computes them in IEEE doubles; for every total_trades up to 8 the    *)
(*    double comparisons with 10 and -10 agree with the exact ones.        *)
(*  - closed_at is a day number (the date of the ISO timestamp). learned_at *)
(*    is a text the client chooses: [day, time], time telling whether the   *)
(*    text carries a time part ('2024-01-15T10:30:00.000Z') or is the date  *)
(*    alone ('2024-01-15'). DATE(closed_at) >= learned_at compares texts.   *)
(***************************************************************************)
EXTENDS Integers, Sequences, FiniteSets, TLC

\* ------------------------------------------------------------- bounds
MaxLessons == 1
MaxNewTrades == 1
SeedDay == 1
Today == SeedDay + 1

\* ---------------------------------------------------- program constants
MinSampleSize == 5
SignificantDelta == 10
WeightSetup == 3
WeightSession == 2
WeightTrigger == 3
WeightEmotion == 2
WeightLocation == 2
CapRelevant == 5
CapTrade == 3

\* ------------------------------------------------------------- values
NullText == "<null>"
Undefined == "<undefined>"
Null == <<>>
Some(v) == <<v>>

\* JavaScript truthiness of a string-or-missing value
Falsy(s) == s \in {"", NullText, Undefined}

Statuses == {"draft", "active", "validated", "invalidated", "archived"}

CondObj(su, se, tr, em, lo) ==
  [js |-> "object", setup |-> su, session |-> se, trigger |-> tr,
   emotion |-> em, location |-> lo]
JsNull ==
  [js |-> "null", setup |-> {}, session |-> {}, trigger |-> {},
   emotion |-> {}, location |-> {}]
JsUndefined ==
  [js |-> "undefined", setup |-> {}, session |-> {}, trigger |-> {},
   emotion |-> {}, location |-> {}]

\* if (conditions): undefined and null are falsy, every object is truthy
JsTruthy(v) == v.js = "object"

\* ------------------------------------------------ JSON text columns
\* JSON.stringify(v) stored in a TEXT column, and JSON.parse of the column
JSONStringify(v) == [sql |-> "TEXT", json |-> v]
JSONParse(col) == col.json
SqlNullCond == [sql |-> "NULL", json |-> JsNull]
\* if (row.column): SQL NULL reads as null (falsy), a JSON text is never empty
ColTruthy(col) == col.sql = "TEXT"

\* ------------------------------------------------ statistics snapshot
\* Ratio without the guard on n: 0 / 0 when n = 0
RatioUnguarded(num, den) == <<num, den>>

\* (wins / n) * 100 and totalPnl / n as exact rationals, 0 when n = 0
Ratio(num, den) == IF den > 0 THEN <<num, den>> ELSE <<0, 1>>

\* DeltaNum with the operands exchanged: before - after
DeltaNumReversed(after, before) == before[1] * after[2] - after[1] * before[2]
\* after - before as a rational, and its comparisons with an integer k
DeltaNum(after, before) == after[1] * before[2] - before[1] * after[2]
DeltaDen(after, before) == after[2] * before[2]
\* DeltaGE with the comparison > in place of >=
DeltaGT(after, before, k) == DeltaNum(after, before) > k * DeltaDen(after, before)
DeltaGE(after, before, k) == DeltaNum(after, before) >= k * DeltaDen(after, before)
DeltaLE(after, before, k) == DeltaNum(after, before) <= k * DeltaDen(after, before)

NoStats ==
  [total_trades |-> 0, wins |-> 0, losses |-> 0, win_rate |-> <<0, 1>>,
   total_pnl |-> 0, avg_pnl |-> <<0, 1>>]
SqlNullStats == [sql |-> "NULL", json |-> NoStats]

\* a learned_at text: the date alone, or an ISO timestamp of that date
DateText(day) == [day |-> day, time |-> FALSE]
IsoText(day) == [day |-> day, time |-> TRUE]

\* DATE(closed_at) >= ? as SQLite compares TEXT: 'YYYY-MM-DD' against the
\* parameter; a date is less than every longer text it is a prefix of
DateTextGE(closedDay, text) ==
  IF text.time THEN closedDay > text.day ELSE closedDay >= text.day

\* one attribute of the WHERE clause: absent or empty constrains nothing,
\* otherwise column IN (values); a NULL column is in no list
AttrClause(allowed, column) == allowed = {} \/ column \in allowed

\* WhereClause without the test of the status
WhereClauseAnyStatus(t, conditions, afterDate) ==
  /\ AttrClause(conditions.setup, t.setup)
  /\ AttrClause(conditions.session, t.session)
  /\ AttrClause(conditions.trigger, t.trigger)
  /\ AttrClause(conditions.location, t.location)
  /\ AttrClause(conditions.emotion, t.initial_emotion)
  /\ (afterDate # Null
      => (t.closed_at # Null /\ DateTextGE(t.closed_at[1], afterDate[1])))

\* WHERE status = 'closed' [AND setup IN ..] .. [AND DATE(closed_at) >= ?]
WhereClause(t, conditions, afterDate) ==
  /\ t.status = "closed"
  /\ AttrClause(conditions.setup, t.setup)
  /\ AttrClause(conditions.session, t.session)
  /\ AttrClause(conditions.trigger, t.trigger)
  /\ AttrClause(conditions.location, t.location)
  /\ AttrClause(conditions.emotion, t.initial_emotion)
  /\ (afterDate # Null
      => (t.closed_at # Null /\ DateTextGE(t.closed_at[1], afterDate[1])))

\* trades.reduce((sum, t) => sum + (t.pnl || 0), 0)
RECURSIVE SumPnl(_)
SumPnl(rows) ==
  IF rows = <<>> THEN 0
  ELSE (IF Head(rows).pnl = Null THEN 0 ELSE Head(rows).pnl[1]) + SumPnl(Tail(rows))

\* conditions.setup?.length throws a TypeError when conditions is null
StatsThrows(conditions) == conditions.js # "object"

\* calculateConditionStats without the closed_at clause
calculateConditionStatsAllTime(rows, conditions, afterDate) ==
  LET matched == SelectSeq(rows, LAMBDA t : WhereClause(t, conditions, Null))
      n == Len(matched)
      wins == Len(SelectSeq(matched, LAMBDA t : t.outcome = "win"))
      totalPnl == SumPnl(matched)
  IN [total_trades |-> n,
      wins |-> wins,
      losses |-> Len(SelectSeq(matched, LAMBDA t : t.outcome = "loss")),
      win_rate |-> Ratio(wins * 100, n),
      total_pnl |-> totalPnl,
      avg_pnl |-> Ratio(totalPnl, n)]

calculateConditionStats(rows, conditions, afterDate) ==
  LET matched == SelectSeq(rows, LAMBDA t : WhereClause(t, conditions, afterDate))
      n == Len(matched)
      wins == Len(SelectSeq(matched, LAMBDA t : t.outcome = "win"))
      totalPnl == SumPnl(matched)
  IN [total_trades |-> n,
      wins |-> wins,
      losses |-> Len(SelectSeq(matched, LAMBDA t : t.outcome = "loss")),
      win_rate |-> Ratio(wins * 100, n),
      total_pnl |-> totalPnl,
      avg_pnl |-> Ratio(totalPnl, n)]

\* ------------------------------------------------ relevance scoring
\* value && conditions.attr?.includes(value)
AttrMatch(value, allowed) == ~Falsy(value) /\ value \in allowed

\* ScoreLesson with the session block adding the weight of the setup block
ScoreLessonSessionAsSetup(ctx, conditions) ==
  LET m1 == IF AttrMatch(ctx.setup, conditions.setup) THEN <<"setup">> ELSE <<>>
      m2 == IF AttrMatch(ctx.session, conditions.session) THEN <<"session">> ELSE <<>>
      m3 == IF AttrMatch(ctx.trigger, conditions.trigger) THEN <<"trigger">> ELSE <<>>
      m4 == IF AttrMatch(ctx.emotion, conditions.emotion) THEN <<"emotion">> ELSE <<>>
      m5 == IF AttrMatch(ctx.location, conditions.location) THEN <<"location">> ELSE <<>>
  IN [relevance_score |->
        Len(m1) * WeightSetup + Len(m2) * WeightSetup + Len(m3) * WeightTrigger
        + Len(m4) * WeightEmotion + Len(m5) * WeightLocation,
      matched_on |-> m1 \o m2 \o m3 \o m4 \o m5]

\* ScoreLesson with each block assigning its weight (score = w) in place of
\* adding it: the score is the weight of the last attribute that matched
ScoreLessonAssigning(ctx, conditions) ==
  LET m1 == IF AttrMatch(ctx.setup, conditions.setup) THEN <<"setup">> ELSE <<>>
      m2 == IF AttrMatch(ctx.session, conditions.session) THEN <<"session">> ELSE <<>>
      m3 == IF AttrMatch(ctx.trigger, conditions.trigger) THEN <<"trigger">> ELSE <<>>
      m4 == IF AttrMatch(ctx.emotion, conditions.emotion) THEN <<"emotion">> ELSE <<>>
      m5 == IF AttrMatch(ctx.location, conditions.location) THEN <<"location">> ELSE <<>>
  IN [relevance_score |->
        IF m5 # <<>> THEN WeightLocation
        ELSE IF m4 # <<>> THEN WeightEmotion
        ELSE IF m3 # <<>> THEN WeightTrigger
        ELSE IF m2 # <<>> THEN WeightSession
        ELSE IF m1 # <<>> THEN WeightSetup ELSE 0,
      matched_on |-> m1 \o m2 \o m3 \o m4 \o m5]

\* the five if-blocks of the scoring callback, in source order
ScoreLesson(ctx, conditions) ==
  LET m1 == IF AttrMatch(ctx.setup, conditions.setup) THEN <<"setup">> ELSE <<>>
      m2 == IF AttrMatch(ctx.session, conditions.session) THEN <<"session">> ELSE <<>>
      m3 == IF AttrMatch(ctx.trigger, conditions.trigger) THEN <<"trigger">> ELSE <<>>
      m4 == IF AttrMatch(ctx.emotion, conditions.emotion) THEN <<"emotion">> ELSE <<>>
      m5 == IF AttrMatch(ctx.location, conditions.location) THEN <<"location">> ELSE <<>>
  IN [relevance_score |->
        Len(m1) * WeightSetup + Len(m2) * WeightSession + Len(m3) * WeightTrigger
        + Len(m4) * WeightEmotion + Len(m5) * WeightLocation,
      matched_on |-> m1 \o m2 \o m3 \o m4 \o m5]

\* Candidates without the test of the status
CandidatesAnyStatus(lessonRows) ==
  SelectSeq(lessonRows, LAMBDA l : l.conditions.sql = "TEXT")

\* WHERE l.status = 'active' AND l.conditions IS NOT NULL, in rowid order
Candidates(lessonRows) ==
  SelectSeq(lessonRows, LAMBDA l : l.status = "active" /\ l.conditions.sql = "TEXT")

\* JSON.parse(lesson.conditions) is null for the text 'null'. In
\* value && conditions.attr?.includes(value) a falsy value short-circuits; the
\* first truthy value reads conditions.attr of null, which throws a TypeError
ScoringThrows(ctx, lessonRows) ==
  /\ \E i \in 1..Len(Candidates(lessonRows)) :
        JSONParse(Candidates(lessonRows)[i].conditions).js # "object"
  /\ \E a \in {"setup", "session", "trigger", "emotion", "location"} : ~Falsy(ctx[a])

ScoreAll(ctx, lessonRows) ==
  LET c == Candidates(lessonRows)
  IN [i \in 1..Len(c) |->
        LET s == ScoreLesson(ctx, JSONParse(c[i].conditions))
        IN [id |-> c[i].id, relevance_score |-> s.relevance_score,
            matched_on |-> s.matched_on]]

\* Array.prototype.sort with (a, b) => b.score - a.score: a stable insertion
\* of each element behind the elements that score at least as much
RECURSIVE InsertByScore(_, _)
InsertByScore(sorted, x) ==
  IF sorted = <<>> THEN <<x>>
  ELSE IF Head(sorted).relevance_score >= x.relevance_score
       THEN <<Head(sorted)>> \o InsertByScore(Tail(sorted), x)
       ELSE <<x>> \o sorted

\* SortByScore with each element inserted before the elements of equal score
RECURSIVE SortByScoreUnstable(_)
SortByScoreUnstable(xs) ==
  IF xs = <<>> THEN <<>>
  ELSE LET rest == SortByScoreUnstable(Tail(xs))
           x == Head(xs)
           higher == SelectSeq(rest, LAMBDA y : y.relevance_score >= x.relevance_score)
           lower == SelectSeq(rest, LAMBDA y : y.relevance_score < x.relevance_score)
       IN higher \o <<x>> \o lower

RECURSIVE SortByScore(_)
SortByScore(xs) ==
  IF xs = <<>> THEN <<>>
  ELSE InsertByScore(SortByScore(SubSeq(xs, 1, Len(xs) - 1)), xs[Len(xs)])

\* Slice keeping one element more than the cap
SliceOneMore(xs, cap) == SubSeq(xs, 1, IF Len(xs) < cap + 1 THEN Len(xs) ELSE cap + 1)

Slice(xs, cap) == SubSeq(xs, 1, IF Len(xs) < cap THEN Len(xs) ELSE cap)

\* RankLessons without the filter on relevance_score
RankLessonsUnfiltered(ctx, lessonRows, cap) ==
  Slice(SortByScore(ScoreAll(ctx, lessonRows)), cap)

\* .filter(l => l.relevance_score > 0).sort(...).slice(0, cap)
RankLessons(ctx, lessonRows, cap) ==
  Slice(SortByScore(SelectSeq(ScoreAll(ctx, lessonRows),
                              LAMBDA l : l.relevance_score > 0)), cap)

\* the context a trade row gives to getRelevantLessonsForTrade
TradeContext(t) ==
  [setup |-> t.setup, session |-> t.session, trigger |-> t.trigger,
   emotion |-> t.initial_emotion, location |-> t.location]

\* ScoreLessonForTrade with the trigger block adding 2 where the query adds 3
ScoreLessonForTradeTriggerTwo(trade, conditions) ==
  LET m1 == IF AttrMatch(trade.setup, conditions.setup) THEN <<"setup">> ELSE <<>>
      m2 == IF AttrMatch(trade.session, conditions.session) THEN <<"session">> ELSE <<>>
      m3 == IF AttrMatch(trade.trigger, conditions.trigger) THEN <<"trigger">> ELSE <<>>
      m4 == IF AttrMatch(trade.initial_emotion, conditions.emotion)
            THEN <<"emotion">> ELSE <<>>
      m5 == IF AttrMatch(trade.location, conditions.location) THEN <<"location">> ELSE <<>>
  IN [relevance_score |->
        Len(m1) * 3 + Len(m2) * 2 + Len(m3) * 2 + Len(m4) * 2 + Len(m5) * 2,
      matched_on |-> m1 \o m2 \o m3 \o m4 \o m5]

\* the scoring callback of getRelevantLessonsForTrade: its own five if-blocks
\* over the columns of the trade row, with the weights written in that file
ScoreLessonForTrade(trade, conditions) ==
  LET m1 == IF AttrMatch(trade.setup, conditions.setup) THEN <<"setup">> ELSE <<>>
      m2 == IF AttrMatch(trade.session, conditions.session) THEN <<"session">> ELSE <<>>
      m3 == IF AttrMatch(trade.trigger, conditions.trigger) THEN <<"trigger">> ELSE <<>>
      m4 == IF AttrMatch(trade.initial_emotion, conditions.emotion)
            THEN <<"emotion">> ELSE <<>>
      m5 == IF AttrMatch(trade.location, conditions.location) THEN <<"location">> ELSE <<>>
  IN [relevance_score |->
        Len(m1) * 3 + Len(m2) * 2 + Len(m3) * 3 + Len(m4) * 2 + Len(m5) * 2,
      matched_on |-> m1 \o m2 \o m3 \o m4 \o m5]

\* getRelevantLessonsForTrade: map, filter, sort, slice(0, 3)
getRelevantLessonsForTrade(trade, lessonRows) ==
  LET c == Candidates(lessonRows)
      scored == [i \in 1..Len(c) |->
                   LET s == ScoreLessonForTrade(trade, JSONParse(c[i].conditions))
                   IN [id |-> c[i].id, relevance_score |-> s.relevance_score,
                       matched_on |-> s.matched_on]]
  IN Slice(SortByScore(SelectSeq(scored, LAMBDA l : l.relevance_score > 0)), CapTrade)

\* ------------------------------------------------------------- state
VARIABLES
  trades,        \* rows of table trades, in rowid order
  tradeSeq,      \* last rowid AUTOINCREMENT gave to a trade
  trading_days,  \* dates of table trading_days
  lessons,       \* rows of table lessons, in rowid order (never deleted)
  validated,     \* ids of the lessons a validate call has written (history)
  created,       \* number of trades this run has inserted (bounds the run)
  resp           \* the response of the last request

vars == <<trades, tradeSeq, trading_days, lessons, validated, created, resp>>

\* validation_note: SQL NULL, or a text; the figures a text prints are those
\* of the row's snapshots, only the wording (kind) and the count n are kept
Note(kind, n) == [kind |-> kind, n |-> n]
NullNote == Note("NULL", 0)

NoContext ==
  [setup |-> Undefined, session |-> Undefined, trigger |-> Undefined,
   emotion |-> Undefined, location |-> Undefined]

\* op and id name the request (the route, its :id); the other fields are the
\* status code and the parts of the JSON body the properties read
Response(op, code, id) ==
  [op |-> op, code |-> code, id |-> id, relevant |-> <<>>, context |-> NoContext,
   status |-> "", note |-> NullNote, stats |-> SqlNullStats]

\* ------------------------------------------------------------- trades
\* value || null for a number of the request body
OrNull(x) == IF x = Null \/ x = Some(0) THEN Null ELSE x
\* value || null for a string of the request body
TextOrNull(s) == IF Falsy(s) THEN NullText ELSE s

\* decimal digits of n, and the order of TEXT values (ORDER BY trade_number)
RECURSIVE Digits(_)
Digits(n) == IF n < 10 THEN <<n>> ELSE Digits(n \div 10) \o <<n % 10>>

TextLess(a, b) ==
  \E k \in 1..(Len(a) + 1) :
     /\ \A j \in 1..(k - 1) : j <= Len(b) /\ a[j] = b[j]
     /\ \/ (k = Len(a) + 1 /\ Len(b) >= k)
        \/ (k <= Len(a) /\ k <= Len(b) /\ a[k] < b[k])

\* trade_number is <<date, sequence>>, printed `${date}-T${sequence}`
generateTradeNumber(rows, date) ==
  LET sameDay == {i \in 1..Len(rows) : rows[i].trade_number[1] = date}
      last == CHOOSE i \in sameDay :
                 \A j \in sameDay :
                    ~TextLess(Digits(rows[i].trade_number[2]),
                              Digits(rows[j].trade_number[2]))
  IN IF sameDay = {} THEN <<date, 1>>
     ELSE <<date, rows[last].trade_number[2] + 1>>

NewTrade(id, number, body, session) ==
  [id |-> id, trade_number |-> number, asset |-> body.asset,
   direction |-> body.direction,
   entry_price |-> OrNull(body.entry_price),
   collateral |-> OrNull(body.collateral),
   position_size |-> OrNull(body.position_size),
   leverage |-> OrNull(body.leverage),
   setup |-> TextOrNull(body.setup), location |-> TextOrNull(body.location),
   trigger |-> TextOrNull(body.trigger), session |-> session,
   initial_emotion |-> TextOrNull(body.initial_emotion),
   exit_price |-> Null, pnl |-> Null, pnl_percentage |-> Null, roi |-> Null,
   outcome |-> NullText, status |-> "open", closed_at |-> Null]

\* the PnL block of the close handler; Null is JavaScript null
ClosePnl(t, exit_price) ==
  LET mult == IF t.direction = "long" THEN 1 ELSE -1
      lev == IF t.leverage = Null THEN 1 ELSE t.leverage[1]
      pct == IF t.entry_price = Null THEN Null
             ELSE Some(((exit_price - t.entry_price[1]) * 100 * mult * lev)
                       \div t.entry_price[1])
      pnl == IF pct = Null THEN Null
             ELSE IF t.collateral # Null THEN Some((t.collateral[1] * pct[1]) \div 100)
             ELSE IF t.position_size # Null
                  THEN Some((t.position_size[1] * pct[1]) \div 100)
             ELSE Null
      roi == IF pct # Null /\ t.collateral # Null
             THEN Some((pnl[1] * 100) \div t.collateral[1]) ELSE Null
      outcome == IF pnl = Null THEN "breakeven"
                 ELSE IF pnl[1] > 0 THEN "win"
                 ELSE IF pnl[1] < 0 THEN "loss" ELSE "breakeven"
  IN [pnl |-> pnl, pnl_percentage |-> pct, roi |-> roi, outcome |-> outcome]

ClosedTrade(t, exit_price, date) ==
  LET c == ClosePnl(t, exit_price)
  IN [t EXCEPT !.exit_price = Some(exit_price), !.pnl = c.pnl,
               !.pnl_percentage = c.pnl_percentage, !.roi = c.roi,
               !.outcome = c.outcome, !.status = "closed",
               !.closed_at = Some(date)]

TradeIndex(rows, id) == {i \in 1..Len(rows) : rows[i].id = id}

RemoveAt(rows, i) == SubSeq(rows, 1, i - 1) \o SubSeq(rows, i + 1, Len(rows))

\* ------------------------------------------------------------- inputs
CondBreakout == CondObj({"Breakout"}, {}, {}, {}, {})
CondScenario == CondObj({"Breakout", "FOMO"}, {"NY Open"}, {}, {}, {})

\* the clock of the run: every request arrives on day Today, in one session
NowSession == "NY Open"

TradeBody(asset, direction, setup) ==
  [asset |-> asset, direction |-> direction, entry_price |-> Some(100),
   collateral |-> Some(100), position_size |-> Null, leverage |-> Null,
   setup |-> setup, location |-> Undefined, trigger |-> Undefined,
   initial_emotion |-> Undefined]

TradeBodies ==
  {TradeBody("BTC", "long", su) : su \in {"Breakout", "FOMO"}}
  \cup {TradeBody(Undefined, "long", "Breakout"),
        TradeBody("BTC", "sideways", "Breakout")}

ExitPrices == {Null, Some(90), Some(100), Some(110)}

LessonBody(title, content, conditions, learned_at) ==
  [title |-> title, content |-> content, conditions |-> conditions,
   learned_at |-> learned_at]

LessonBodies ==
  {LessonBody("Lesson", "Body", c, d) :
      c \in {JsUndefined, CondBreakout}, d \in {Null, Some(DateText(SeedDay))}}
  \cup {LessonBody("", "Body", CondBreakout, Null),
        LessonBody("Lesson", Undefined, CondBreakout, Null)}

\* a PUT body with one key (or none); text is the value of a text key and
\* cond the value of the key conditions
EditBody(key, text, cond) == [key |-> key, text |-> text, cond |-> cond]

EditBodies ==
  {EditBody("none", "", JsUndefined), EditBody("stats_before", "", JsUndefined),
   EditBody("title", "Renamed", JsUndefined)}
  \cup {EditBody("status", st, JsUndefined) : st \in Statuses}
  \cup {EditBody("conditions", "", c) : c \in {JsNull, CondBreakout}}

Contexts ==
  {[setup |-> su, session |-> se, trigger |-> "", emotion |-> "", location |-> ""] :
      su \in {"", "Breakout"}, se \in {"NY Open"}}

LessonIds == 1..MaxLessons

\* a store an earlier run left: five closed Breakout trades of day SeedDay,
\* three won and two lost
SeedTrade(id, exit_price) ==
  ClosedTrade(
    NewTrade(id, <<SeedDay, id>>, TradeBody("BTC", "long", "Breakout"), "London"),
    exit_price, SeedDay)

SeedTrades ==
  <<SeedTrade(1, 110), SeedTrade(2, 90), SeedTrade(3, 110), SeedTrade(4, 90),
    SeedTrade(5, 110)>>

TradeIds == 1..(Len(SeedTrades) + MaxNewTrades)

\* delete requests name the last trade of the earlier run or a trade of this run
DeleteIds == Len(SeedTrades)..(Len(SeedTrades) + MaxNewTrades)

\* ------------------------------------------------------------- Init
\* the database file is created or opened: empty, or as an earlier run left it
Init ==
  /\ trades \in {<<>>, SeedTrades}
  /\ tradeSeq = Len(trades)
  /\ trading_days = {trades[i].trade_number[1] : i \in 1..Len(trades)}
  /\ lessons = <<>>
  /\ validated = {}
  /\ created = 0
  /\ resp = Response("none", 0, 0)

\* ------------------------------------------------------------- trade routes
\* POST /api/trades
CreateTrade(body) ==
  /\ UNCHANGED <<lessons, validated>>
  /\ IF Falsy(body.asset) \/ Falsy(body.direction)
          \/ body.direction \notin {"long", "short"}
     THEN /\ resp' = Response("createTrade", 400, 0)
          /\ UNCHANGED <<trades, tradeSeq, trading_days, created>>
     ELSE /\ created < MaxNewTrades
          /\ LET number == generateTradeNumber(trades, Today)
                 row == NewTrade(tradeSeq + 1, number, body, NowSession)
             IN /\ trading_days' = trading_days \cup {Today}
                /\ IF \E i \in 1..Len(trades) : trades[i].trade_number = number
                   THEN \* UNIQUE(trade_number) fails the INSERT
                        /\ resp' = Response("createTrade", 500, 0)
                        /\ UNCHANGED <<trades, tradeSeq, created>>
                   ELSE /\ trades' = Append(trades, row)
                        /\ tradeSeq' = tradeSeq + 1
                        /\ created' = created + 1
                        /\ resp' =
                             IF ScoringThrows(TradeContext(row), lessons)
                             THEN Response("createTrade", 500, row.id)
                             ELSE [Response("createTrade", 201, row.id) EXCEPT
                                     !.relevant =
                                        getRelevantLessonsForTrade(row, lessons)]

\* POST /api/trades/:id/close (the request carries no exit_emotion)
CloseTrade(id, exit_price) ==
  /\ UNCHANGED <<tradeSeq, trading_days, lessons, validated, created>>
  /\ IF TradeIndex(trades, id) = {}
     THEN resp' = Response("closeTrade", 404, 0) /\ UNCHANGED trades
     ELSE LET i == CHOOSE k \in TradeIndex(trades, id) : TRUE
          IN IF trades[i].status = "closed" \/ OrNull(exit_price) = Null
             THEN resp' = Response("closeTrade", 400, 0) /\ UNCHANGED trades
             ELSE /\ trades' =
                       [trades EXCEPT ![i] = ClosedTrade(trades[i], exit_price[1], Today)]
                  /\ resp' = Response("closeTrade", 200, id)

\* TradeAllowedFields as the handoff document describes the route: every
\* field editable, pnl, outcome and status included
TradeAllowedFieldsAll ==
  {"asset", "direction", "entry_price", "exit_price", "position_size",
   "collateral", "leverage", "liquidation_price", "setup", "location", "trigger",
   "initial_emotion", "planned_in_outlook", "pnl", "outcome", "status"}

\* allowedFields of PUT /trades/:id
TradeAllowedFields ==
  {"asset", "direction", "entry_price", "exit_price", "position_size",
   "collateral", "leverage", "liquidation_price", "setup", "location", "trigger",
   "initial_emotion", "planned_in_outlook"}

\* the entries of the request body the loop keeps, in the order of the body
ValidTradeFields(body) == SelectSeq(body, LAMBDA kv : kv[1] \in TradeAllowedFields)

\* UPDATE trades SET key = ?, ...: the columns the model does not hold
\* (liquidation_price, planned_in_outlook, updated_at) leave the row as it is
RECURSIVE SetTradeFields(_, _)
SetTradeFields(row, kvs) ==
  IF kvs = <<>> THEN row
  ELSE LET kv == Head(kvs)
       IN SetTradeFields(
            IF kv[1] \in DOMAIN row THEN [row EXCEPT ![kv[1]] = kv[2]] ELSE row,
            Tail(kvs))

\* asset and direction are NOT NULL columns
TradeUpdateFails(kvs) ==
  \E k \in 1..Len(kvs) : kvs[k][1] \in {"asset", "direction"} /\ kvs[k][2] = NullText

\* PUT /api/trades/:id; body is the sequence of <<key, value>> of the JSON body
EditTrade(id, body) ==
  /\ UNCHANGED <<tradeSeq, trading_days, lessons, validated, created>>
  /\ IF TradeIndex(trades, id) = {}
     THEN resp' = Response("editTrade", 404, 0) /\ UNCHANGED trades
     ELSE LET i == CHOOSE k \in TradeIndex(trades, id) : TRUE
              kvs == ValidTradeFields(body)
          IN IF kvs = <<>>
             THEN resp' = Response("editTrade", 400, 0) /\ UNCHANGED trades
             ELSE IF TradeUpdateFails(kvs)
                  THEN resp' = Response("editTrade", 500, 0) /\ UNCHANGED trades
                  ELSE /\ trades' = [trades EXCEPT ![i] = SetTradeFields(trades[i], kvs)]
                       /\ resp' = Response("editTrade", 200, id)

\* DELETE /api/trades/:id
DeleteTrade(id) ==
  /\ UNCHANGED <<tradeSeq, trading_days, lessons, validated, created>>
  /\ IF TradeIndex(trades, id) = {}
     THEN resp' = Response("deleteTrade", 404, 0) /\ UNCHANGED trades
     ELSE /\ trades' = RemoveAt(trades, CHOOSE k \in TradeIndex(trades, id) : TRUE)
          /\ resp' = Response("deleteTrade", 200, id)

\* ------------------------------------------------------------- lesson routes
\* NewLesson with the baseline restricted to the trades closed since learned_at
NewLessonSinceLearned(id, body, rows) ==
  LET hasCond == JsTruthy(body.conditions)
      learned == IF body.learned_at = Null THEN DateText(Today) ELSE body.learned_at[1]
      stats == calculateConditionStats(rows, body.conditions, Some(learned))
  IN [id |-> id, title |-> body.title, content |-> body.content,
      conditions |-> IF hasCond THEN JSONStringify(body.conditions) ELSE SqlNullCond,
      learned_at |-> learned,
      stats_before |-> IF hasCond THEN JSONStringify(stats) ELSE SqlNullStats,
      trade_count_before |-> IF hasCond THEN stats.total_trades ELSE 0,
      stats_after |-> SqlNullStats, trade_count_after |-> 0,
      status |-> "active", validation_note |-> NullNote]

NewLesson(id, body, rows) ==
  LET hasCond == JsTruthy(body.conditions)
      stats == calculateConditionStats(rows, body.conditions, Null)
  IN [id |-> id, title |-> body.title, content |-> body.content,
      conditions |-> IF hasCond THEN JSONStringify(body.conditions) ELSE SqlNullCond,
      learned_at |-> IF body.learned_at = Null THEN DateText(Today)
                     ELSE body.learned_at[1],
      stats_before |-> IF hasCond THEN JSONStringify(stats) ELSE SqlNullStats,
      trade_count_before |-> IF hasCond THEN stats.total_trades ELSE 0,
      stats_after |-> SqlNullStats, trade_count_after |-> 0,
      status |-> "active", validation_note |-> NullNote]

\* MissingRequired without the test of content
MissingTitle(body) == Falsy(body.title)

\* if (!title || !content)
MissingRequired(body) == Falsy(body.title) \/ Falsy(body.content)

\* POST /api/lessons
CreateLesson(body) ==
  /\ UNCHANGED <<trades, tradeSeq, trading_days, validated, created>>
  /\ IF MissingRequired(body)
     THEN resp' = Response("createLesson", 400, 0) /\ UNCHANGED lessons
     ELSE /\ Len(lessons) < MaxLessons
          /\ lessons' = Append(lessons, NewLesson(Len(lessons) + 1, body, trades))
          /\ resp' = Response("createLesson", 201, Len(lessons) + 1)

\* GET /api/lessons/:id
GetLesson(id) ==
  /\ UNCHANGED <<trades, tradeSeq, trading_days, lessons, validated, created>>
  /\ IF id \notin 1..Len(lessons)
     THEN resp' = Response("getLesson", 404, id)
     ELSE LET c == JSONParse(lessons[id].conditions)
          IN resp' =
               [Response("getLesson", 200, id) EXCEPT
                  !.stats =
                     IF ColTruthy(lessons[id].conditions) /\ JsTruthy(c)
                     THEN JSONStringify(
                            calculateConditionStats(trades, c, Some(lessons[id].learned_at)))
                     ELSE SqlNullStats]

AllowedFields == {"title", "content", "category_id", "conditions", "status",
                  "validation_note"}

\* SetField with an edit of the conditions also dropping stats_after
SetFieldClearingSnapshot(row, body) ==
  IF body.key = "conditions"
  THEN [row EXCEPT !.conditions = JSONStringify(body.cond),
                   !.stats_after = SqlNullStats]
  ELSE IF body.key = "validation_note"
       THEN [row EXCEPT !.validation_note = Note(body.text, 0)]
       ELSE [row EXCEPT ![body.key] = body.text]

\* the SET clause one key of the PUT body gives
SetField(row, body) ==
  IF body.key = "conditions"
  THEN [row EXCEPT !.conditions = JSONStringify(body.cond)]
  ELSE IF body.key = "validation_note"
       THEN [row EXCEPT !.validation_note = Note(body.text, 0)]
       ELSE [row EXCEPT ![body.key] = body.text]

\* PUT /api/lessons/:id
EditLesson(id, body) ==
  /\ UNCHANGED <<trades, tradeSeq, trading_days, validated, created>>
  /\ IF id \notin 1..Len(lessons)
     THEN resp' = Response("editLesson", 404, id) /\ UNCHANGED lessons
     ELSE IF body.key \notin AllowedFields
          THEN resp' = Response("editLesson", 400, id) /\ UNCHANGED lessons
          ELSE /\ lessons' = [lessons EXCEPT ![id] = SetField(lessons[id], body)]
               /\ resp' = Response("editLesson", 200, id)

\* DELETE /api/lessons/:id
ArchiveLesson(id) ==
  /\ UNCHANGED <<trades, tradeSeq, trading_days, validated, created>>
  /\ IF id \notin 1..Len(lessons)
     THEN resp' = Response("archiveLesson", 404, id) /\ UNCHANGED lessons
     ELSE /\ lessons' = [lessons EXCEPT ![id].status = "archived"]
          /\ resp' = Response("archiveLesson", 200, id)

\* ValidationDecision asking for one matching trade in place of MinSampleSize
ValidationDecisionAnySample(status, statsBefore, statsAfter) ==
  IF statsAfter.total_trades >= 1
  THEN IF ColTruthy(statsBefore)
       THEN LET before == JSONParse(statsBefore).win_rate
                after == statsAfter.win_rate
            IN IF DeltaGE(after, before, SignificantDelta)
               THEN [status |-> "validated", note |-> Note("improved", 0)]
               ELSE IF DeltaLE(after, before, -SignificantDelta)
                    THEN [status |-> "invalidated", note |-> Note("decreased", 0)]
                    ELSE [status |-> status, note |-> Note("not significant yet", 0)]
       ELSE [status |-> status, note |-> Note("", 0)]
  ELSE [status |-> status,
        note |-> Note("need more", MinSampleSize - statsAfter.total_trades)]

\* ValidationDecision deciding for an active lesson only
ValidationDecisionOnce(status, statsBefore, statsAfter) ==
  IF statsAfter.total_trades >= MinSampleSize
  THEN IF ColTruthy(statsBefore)
       THEN LET before == JSONParse(statsBefore).win_rate
                after == statsAfter.win_rate
            IN IF status = "active" /\ DeltaGE(after, before, SignificantDelta)
               THEN [status |-> "validated", note |-> Note("improved", 0)]
               ELSE IF status = "active" /\ DeltaLE(after, before, -SignificantDelta)
                    THEN [status |-> "invalidated", note |-> Note("decreased", 0)]
                    ELSE [status |-> status, note |-> Note("not significant yet", 0)]
       ELSE [status |-> status, note |-> Note("", 0)]
  ELSE [status |-> status,
        note |-> Note("need more", MinSampleSize - statsAfter.total_trades)]

\* ValidationDecision reading a missing baseline as a win rate of 0
ValidationDecisionZeroBaseline(status, statsBefore, statsAfter) ==
  IF statsAfter.total_trades >= MinSampleSize
  THEN LET before == IF ColTruthy(statsBefore) THEN JSONParse(statsBefore).win_rate
                     ELSE <<0, 1>>
           after == statsAfter.win_rate
       IN IF DeltaGE(after, before, SignificantDelta)
          THEN [status |-> "validated", note |-> Note("improved", 0)]
          ELSE IF DeltaLE(after, before, -SignificantDelta)
               THEN [status |-> "invalidated", note |-> Note("decreased", 0)]
               ELSE [status |-> status, note |-> Note("not significant yet", 0)]
  ELSE [status |-> status,
        note |-> Note("need more", MinSampleSize - statsAfter.total_trades)]

\* the decision of the validate handler: the new status and the note
ValidationDecision(status, statsBefore, statsAfter) ==
  IF statsAfter.total_trades >= MinSampleSize
  THEN IF ColTruthy(statsBefore)
       THEN LET before == JSONParse(statsBefore).win_rate
                after == statsAfter.win_rate
            IN IF DeltaGE(after, before, SignificantDelta)
               THEN [status |-> "validated", note |-> Note("improved", 0)]
               ELSE IF DeltaLE(after, before, -SignificantDelta)
                    THEN [status |-> "invalidated", note |-> Note("decreased", 0)]
                    ELSE [status |-> status, note |-> Note("not significant yet", 0)]
       ELSE [status |-> status, note |-> Note("", 0)]
  ELSE [status |-> status,
        note |-> Note("need more", MinSampleSize - statsAfter.total_trades)]

\* ValidatedRow adding the count to trade_count_after in place of storing it
ValidatedRowAccumulating(l, tradeRows) ==
  LET statsAfter ==
        calculateConditionStats(tradeRows, JSONParse(l.conditions), Some(l.learned_at))
      d == ValidationDecision(l.status, l.stats_before, statsAfter)
  IN [l EXCEPT !.stats_after = JSONStringify(statsAfter),
               !.trade_count_after = l.trade_count_after + statsAfter.total_trades,
               !.status = d.status,
               !.validation_note = d.note]

\* ValidatedRow with trade_count_after missing from the UPDATE
ValidatedRowKeepingCount(l, tradeRows) ==
  LET statsAfter ==
        calculateConditionStats(tradeRows, JSONParse(l.conditions), Some(l.learned_at))
      d == ValidationDecision(l.status, l.stats_before, statsAfter)
  IN [l EXCEPT !.stats_after = JSONStringify(statsAfter),
               !.status = d.status,
               !.validation_note = d.note]

\* the row the validate handler's UPDATE leaves for lesson row l
ValidatedRow(l, tradeRows) ==
  LET statsAfter ==
        calculateConditionStats(tradeRows, JSONParse(l.conditions), Some(l.learned_at))
      d == ValidationDecision(l.status, l.stats_before, statsAfter)
  IN [l EXCEPT !.stats_after = JSONStringify(statsAfter),
               !.trade_count_after = statsAfter.total_trades,
               !.status = d.status,
               !.validation_note = d.note]

\* ValidatedStore with the UPDATE lacking its WHERE id = ? clause
ValidatedStoreAllRows(store, id, tradeRows) ==
  LET r == ValidatedRow(store[id], tradeRows)
  IN [i \in 1..Len(store) |->
        [store[i] EXCEPT !.stats_after = r.stats_after,
                         !.trade_count_after = r.trade_count_after,
                         !.status = r.status,
                         !.validation_note = r.validation_note]]

\* UPDATE lessons SET stats_after = ?, ... WHERE id = ?
ValidatedStore(store, id, tradeRows) ==
  [store EXCEPT ![id] = ValidatedRow(store[id], tradeRows)]

\* POST /api/lessons/:id/validate
ValidateLesson(id) ==
  /\ UNCHANGED <<trades, tradeSeq, trading_days, created>>
  /\ IF id \notin 1..Len(lessons)
     THEN resp' = Response("validate", 404, id) /\ UNCHANGED <<lessons, validated>>
     ELSE IF ~ColTruthy(lessons[id].conditions)
          THEN resp' = Response("validate", 400, id) /\ UNCHANGED <<lessons, validated>>
          ELSE IF StatsThrows(JSONParse(lessons[id].conditions))
               THEN resp' = Response("validate", 500, id)
                    /\ UNCHANGED <<lessons, validated>>
               ELSE LET l == lessons[id]
                        statsAfter ==
                          calculateConditionStats(trades, JSONParse(l.conditions),
                                                  Some(l.learned_at))
                        d == ValidationDecision(l.status, l.stats_before, statsAfter)
                    IN /\ lessons' = ValidatedStore(lessons, id, trades)
                       /\ validated' = validated \cup {id}
                       /\ resp' =
                            [Response("validate", 200, id) EXCEPT
                               !.status = d.status, !.note = d.note,
                               !.stats = JSONStringify(statsAfter)]

\* RelevantQuery also writing the lessons it returns (status draft)
RelevantQueryMarking(ctx) ==
  /\ UNCHANGED <<trades, tradeSeq, trading_days, validated, created>>
  /\ IF ScoringThrows(ctx, lessons)
     THEN resp' = Response("relevant", 500, 0) /\ UNCHANGED lessons
     ELSE LET out == RankLessons(ctx, lessons, CapRelevant)
          IN /\ resp' = [Response("relevant", 200, 0) EXCEPT
                           !.relevant = out, !.context = ctx]
             /\ lessons' =
                  [i \in 1..Len(lessons) |->
                     IF \E k \in 1..Len(out) : out[k].id = i
                     THEN [lessons[i] EXCEPT !.status = "draft"]
                     ELSE lessons[i]]

\* GET /api/lessons/relevant
RelevantQuery(ctx) ==
  /\ UNCHANGED <<trades, tradeSeq, trading_days, lessons, validated, created>>
  /\ resp' =
       IF ScoringThrows(ctx, lessons)
       THEN Response("relevant", 500, 0)
       ELSE [Response("relevant", 200, 0) EXCEPT
               !.relevant = RankLessons(ctx, lessons, CapRelevant),
               !.context = ctx]

\* ------------------------------------------------------------- specification
Next ==
  \/ \E body \in TradeBodies : CreateTrade(body)
  \/ \E id \in TradeIds, x \in ExitPrices : CloseTrade(id, x)
  \/ \E id \in DeleteIds : DeleteTrade(id)
  \/ \E body \in LessonBodies : CreateLesson(body)
  \/ \E id \in LessonIds : GetLesson(id)
  \/ \E id \in LessonIds, body \in EditBodies : EditLesson(id, body)
  \/ \E id \in LessonIds : ArchiveLesson(id)
  \/ \E id \in LessonIds : ValidateLesson(id)
  \/ \E ctx \in Contexts : RelevantQuery(ctx)

Spec == Init /\ [][Next]_vars

\* ------------------------------------------------------------- scoring runs
\* A second specification for the two scorer call sites: the store holds up to
\* MaxScoreLessons active lessons with conditions over all five attributes and
\* no trade; the requests are relevant-lessons queries and trade creations.
MaxScoreLessons == 2

CondFive == CondObj({"Breakout"}, {"NY Open"}, {"Retest"}, {"Calm"}, {"Range low"})
CondSession == CondObj({}, {"London", "NY Open"}, {}, {"Calm"}, {})

\* JsNull: a lesson whose conditions an edit has replaced by null
ScoreConds == {CondScenario, CondFive, CondSession, JsNull}

ScoreStore(f) ==
  [i \in DOMAIN f |->
     IF JsTruthy(f[i])
     THEN NewLesson(i, LessonBody("Lesson", "Body", f[i], Null), <<>>)
     ELSE SetField(NewLesson(i, LessonBody("Lesson", "Body", JsUndefined, Null), <<>>),
                   EditBody("conditions", "", f[i]))]

ScoreStores ==
  {ScoreStore(f) : f \in UNION {[1..n -> ScoreConds] : n \in 0..MaxScoreLessons}}

ScoreContexts ==
  [setup : {"", "Breakout"}, session : {"", "London", "NY Open"},
   trigger : {"", "Retest"}, emotion : {"", "Calm"}, location : {"", "Range low"}]

ScoreTradeBodies ==
  {[TradeBody("BTC", "long", su) EXCEPT
      !.trigger = tr, !.initial_emotion = em, !.location = lo] :
     su \in {Undefined, "Breakout"}, tr \in {Undefined, "Retest"},
     em \in {Undefined, "Calm"}, lo \in {Undefined, "Range low"}}

InitScore ==
  /\ trades = <<>>
  /\ tradeSeq = 0
  /\ trading_days = {}
  /\ lessons \in ScoreStores
  /\ validated = {}
  /\ created = 0
  /\ resp = Response("none", 0, 0)

NextScore ==
  \/ \E ctx \in ScoreContexts : RelevantQuery(ctx)
  \/ \E body \in ScoreTradeBodies : CreateTrade(body)

SpecScore == InitScore /\ [][NextScore]_vars

\* ------------------------------------------------------------- ranking runs
\* A third specification for the cap and the order of the scorer output: the
\* store holds up to MaxRankLessons active lessons, more than either cap.
MaxRankLessons == 6

RankConds == {CondScenario, CondFive, CondBreakout}

RankStores ==
  {ScoreStore(f) : f \in UNION {[1..n -> RankConds] : n \in 0..MaxRankLessons}}

RankContexts ==
  {[setup |-> su, session |-> se, trigger |-> tr, emotion |-> "", location |-> ""] :
      su \in {"", "Breakout"}, se \in {"London", "NY Open"}, tr \in {"", "Retest"}}

RankTradeBodies ==
  {[TradeBody("BTC", "long", su) EXCEPT !.trigger = tr] :
     su \in {Undefined, "Breakout"}, tr \in {Undefined, "Retest"}}

InitRank ==
  /\ trades = <<>>
  /\ tradeSeq = 0
  /\ trading_days = {}
  /\ lessons \in RankStores
  /\ validated = {}
  /\ created = 0
  /\ resp = Response("none", 0, 0)

NextRank ==
  \/ \E ctx \in RankContexts : RelevantQuery(ctx)
  \/ \E body \in RankTradeBodies : CreateTrade(body)

SpecRank == InitRank /\ [][NextRank]_vars

\* ------------------------------------------------------------- statistics runs
\* A fourth specification for calculateConditionStats: the store holds up to
\* MaxStatTrades trades that differ in every attribute the WHERE clause reads,
\* open and closed, closed on either day; the requests create, read and
\* validate lessons with conditions over all five attributes and a learned_at
\* given as a date or as an ISO timestamp, and close open trades.
MaxStatTrades == 2

StatShape(setup, session, trigger, location, emotion, closed, day, exit) ==
  [setup |-> setup, session |-> session, trigger |-> trigger,
   location |-> location, emotion |-> emotion, closed |-> closed, day |-> day,
   exit |-> exit]

StatShapes ==
  {StatShape("Breakout", "NY Open", "Retest", "Range low", "Calm", TRUE, SeedDay, 110),
   StatShape("Breakout", "NY Open", "Retest", "Range low", "Calm", TRUE, Today, 90),
   StatShape("Breakout", "NY Open", "Retest", "Range low", "Calm", FALSE, Today, 0),
   StatShape("Breakout", "London", Undefined, Undefined, Undefined, TRUE, Today, 100),
   StatShape("FOMO", "NY Open", "Retest", "Range low", "Calm", TRUE, Today, 110),
   StatShape("Breakout", "NY Open", "Retest", "Range low", "Anxious", TRUE, Today, 110),
   StatShape("Breakout", "NY Open", "Sweep", "Range low", "Calm", TRUE, SeedDay, 90),
   StatShape("Breakout", "NY Open", "Retest", "Range high", "Calm", TRUE, Today, 110)}

StatTrade(id, sh) ==
  LET body == [TradeBody("BTC", "long", sh.setup) EXCEPT
                 !.trigger = sh.trigger, !.location = sh.location,
                 !.initial_emotion = sh.emotion]
      open == NewTrade(id, <<sh.day, id>>, body, sh.session)
  IN IF sh.closed THEN ClosedTrade(open, sh.exit, sh.day) ELSE open

StatStores ==
  {[i \in DOMAIN f |-> StatTrade(i, f[i])] :
     f \in UNION {[1..n -> StatShapes] : n \in 0..MaxStatTrades}}

CondEmpty == CondObj({}, {}, {}, {}, {})
CondEmotion == CondObj({}, {}, {}, {"Calm"}, {})

StatLessonBodies ==
  {LessonBody("Lesson", "Body", c, d) :
     c \in {CondFive, CondScenario, CondBreakout, CondEmotion, CondEmpty},
     d \in {Null, Some(DateText(SeedDay)), Some(IsoText(SeedDay)),
            Some(IsoText(Today))}}

StatTradeIds == 1..MaxStatTrades

StatExitPrices == {Some(90), Some(110)}

InitStats ==
  /\ trades \in StatStores
  /\ tradeSeq = Len(trades)
  /\ trading_days = {trades[i].trade_number[1] : i \in 1..Len(trades)}
  /\ lessons = <<>>
  /\ validated = {}
  /\ created = 0
  /\ resp = Response("none", 0, 0)

NextStats ==
  \/ \E body \in StatLessonBodies : CreateLesson(body)
  \/ \E id \in LessonIds : GetLesson(id)
  \/ \E id \in LessonIds : ValidateLesson(id)
  \/ \E id \in StatTradeIds, x \in StatExitPrices : CloseTrade(id, x)

SpecStats == InitStats /\ [][NextStats]_vars

\* ------------------------------------------------------------- validation runs
\* A fifth specification for repeated validation: the store holds up to
\* MaxValidateLessons lessons on Breakout trades, created and validated by
\* earlier requests, and five closed trades (three, two or none of them won);
\* the requests are the lesson
\* create, validate and archive routes and the trade create, close and delete
\* routes (no lesson edit).
MaxValidateLessons == 2

\* the five closed trades of an earlier run with two won and three lost
SeedLosing ==
  <<SeedTrade(1, 110), SeedTrade(2, 90), SeedTrade(3, 110), SeedTrade(4, 90),
    SeedTrade(5, 90)>>

\* the five closed trades of an earlier run with none won
SeedLost ==
  <<SeedTrade(1, 90), SeedTrade(2, 90), SeedTrade(3, 90), SeedTrade(4, 90),
    SeedTrade(5, 90)>>

ValidateLessonBody(title) ==
  LessonBody(title, "Body", CondBreakout, Some(DateText(SeedDay)))

\* a lesson row as POST /lessons, and for the last two kinds a later validate
\* call, wrote it: created over no trade (baseline 0 of 0), created over one
\* win and one loss (baseline 50), and that lesson validated over SeedTrades
\* (60) or invalidated over SeedLosing (40)
ValidateRow(id, kind) ==
  CASE kind = "Fresh" -> NewLesson(id, ValidateLessonBody(kind), <<>>)
    [] kind = "Even" -> NewLesson(id, ValidateLessonBody(kind), SubSeq(SeedTrades, 1, 2))
    [] kind = "Proven" ->
         ValidatedRow(NewLesson(id, ValidateLessonBody(kind), SubSeq(SeedTrades, 1, 2)),
                      SeedTrades)
    [] kind = "Disproven" ->
         ValidatedRow(NewLesson(id, ValidateLessonBody(kind), SubSeq(SeedTrades, 1, 2)),
                      SeedLosing)

ValidateKinds == {"Fresh", "Even", "Proven", "Disproven"}

ValidateStores ==
  {[i \in DOMAIN f |-> ValidateRow(i, f[i])] :
     f \in UNION {[1..n -> ValidateKinds] : n \in 0..MaxValidateLessons}}

ValidateLessonIds == 1..MaxValidateLessons

ValidateTradeBodies == {TradeBody("BTC", "long", "Breakout")}

ValidateExitPrices == {Some(90), Some(110)}

InitValidate ==
  /\ trades \in {SeedTrades, SeedLosing, SeedLost}
  /\ tradeSeq = Len(trades)
  /\ trading_days = {trades[i].trade_number[1] : i \in 1..Len(trades)}
  /\ lessons \in ValidateStores
  /\ validated = {i \in 1..Len(lessons) : lessons[i].trade_count_after > 0}
  /\ created = 0
  /\ resp = Response("none", 0, 0)

NextValidate ==
  \/ \E id \in ValidateLessonIds : ValidateLesson(id)
  \/ \E id \in ValidateLessonIds : ArchiveLesson(id)
  \/ CreateLesson(ValidateLessonBody("Lesson"))
  \/ \E body \in ValidateTradeBodies : CreateTrade(body)
  \/ \E id \in TradeIds, x \in ValidateExitPrices : CloseTrade(id, x)
  \/ \E id \in DeleteIds : DeleteTrade(id)

SpecValidate == InitValidate /\ [][NextValidate]_vars

\* ------------------------------------------------------------- numbering runs
\* A sixth specification for trade numbers: the store holds the first n trades
\* of day Today, n up to MaxDayTrades, as POST /trades numbered them; the
\* requests are the trade create, close and delete routes.
MaxDayTrades == 10

DayTrade(i) == NewTrade(i, <<Today, i>>, TradeBody("BTC", "long", "Breakout"), NowSession)

DayStores == {[i \in 1..n |-> DayTrade(i)] : n \in 0..MaxDayTrades}

\* close and delete requests name the first trade of the day, the last two of
\* a full store, or a trade of this run
DayTradeIds ==
  {1} \cup ((MaxDayTrades - 1)..(MaxDayTrades + MaxNewTrades))

InitNumbering ==
  /\ trades \in DayStores
  /\ tradeSeq = Len(trades)
  /\ trading_days = {trades[i].trade_number[1] : i \in 1..Len(trades)}
  /\ lessons = <<>>
  /\ validated = {}
  /\ created = 0
  /\ resp = Response("none", 0, 0)

NextNumbering ==
  \/ \E body \in TradeBodies : CreateTrade(body)
  \/ \E id \in DayTradeIds, x \in ExitPrices : CloseTrade(id, x)
  \/ \E id \in DayTradeIds : DeleteTrade(id)

SpecNumbering == InitNumbering /\ [][NextNumbering]_vars

\* ------------------------------------------------------------- lifecycle runs
\* A seventh specification for the life of a trade: the store is empty or
\* holds one closed trade of an earlier run; the requests are the trade
\* create, edit, close and delete routes.
LifecycleStores == {<<>>, <<SeedTrade(1, 110)>>, <<SeedTrade(1, 90)>>}

LifecycleIds == 1..(1 + MaxNewTrades)

LifecycleBodies ==
  {TradeBody("BTC", "long", "Breakout"), TradeBody(Undefined, "long", "Breakout")}

\* PUT bodies: none, one or two keys, allowed or not
TradeEditBodies ==
  {<<>>,
   <<<<"status", "open">>>>, <<<<"outcome", "win">>>>, <<<<"pnl", Some(50)>>>>,
   <<<<"closed_at", Null>>>>,
   <<<<"status", "open">>, <<"setup", "FOMO">>>>,
   <<<<"direction", "short">>>>, <<<<"direction", NullText>>>>,
   <<<<"entry_price", Some(200)>>>>, <<<<"entry_price", Null>>>>,
   <<<<"exit_price", Some(90)>>, <<"planned_in_outlook", "1">>>>}

InitLifecycle ==
  /\ trades \in LifecycleStores
  /\ tradeSeq = Len(trades)
  /\ trading_days = {trades[i].trade_number[1] : i \in 1..Len(trades)}
  /\ lessons = <<>>
  /\ validated = {}
  /\ created = 0
  /\ resp = Response("none", 0, 0)

NextLifecycle ==
  \/ \E body \in LifecycleBodies : CreateTrade(body)
  \/ \E id \in LifecycleIds, body \in TradeEditBodies : EditTrade(id, body)
  \/ \E id \in LifecycleIds, x \in ExitPrices : CloseTrade(id, x)
  \/ \E id \in LifecycleIds : DeleteTrade(id)

SpecLifecycle == InitLifecycle /\ [][NextLifecycle]_vars

\* ------------------------------------------------------------- properties
\* The closed trades of the store whose attributes satisfy every non-empty
\* constraint of cond and, when since is a date, that closed on or after it.
MatchingClosed(cond, since) ==
  {i \in 1..Len(trades) :
     /\ trades[i].status = "closed"
     /\ cond.setup # {} => trades[i].setup \in cond.setup
     /\ cond.session # {} => trades[i].session \in cond.session
     /\ cond.trigger # {} => trades[i].trigger \in cond.trigger
     /\ cond.location # {} => trades[i].location \in cond.location
     /\ cond.emotion # {} => trades[i].initial_emotion \in cond.emotion
     /\ since # Null => trades[i].closed_at[1] >= since[1]}

WinsIn(S) == Cardinality({i \in S : trades[i].outcome = "win"})

\* the trades a validate call on lesson l counts
CountedAfter(l) == MatchingClosed(JSONParse(l.conditions), Some(l.learned_at.day))

\* C1: a lesson's status becomes validated or invalidated only through a
\* successful validate call on that lesson; creation, edit and archive never
\* move a lesson into validated or invalidated.
C1_StatusOnlyByValidate ==
  [][/\ \A i \in 1..Len(lessons) :
          (/\ lessons'[i].status \in {"validated", "invalidated"}
           /\ lessons'[i].status # lessons[i].status)
          => (resp'.op = "validate" /\ resp'.id = i /\ resp'.code = 200)
     /\ \A i \in (Len(lessons) + 1)..Len(lessons') :
          lessons'[i].status \notin {"validated", "invalidated"}]_vars

\* C2: archived is terminal; no step changes the status of an archived lesson.
C2_ArchivedTerminal ==
  [][\A i \in 1..Len(lessons) :
        lessons[i].status = "archived" => lessons'[i].status = "archived"]_vars

\* C3: a successful validate call that counts 0 to 4 matching trades leaves the
\* lesson's status as it was, whatever the win rates are.
C3_Threshold ==
  [][(/\ resp'.op = "validate"
      /\ resp'.code = 200
      /\ Cardinality(CountedAfter(lessons[resp'.id])) < 5)
     => lessons'[resp'.id].status = lessons[resp'.id].status]_vars

\* a validate call found 1 to 4 trades, a win rate at least 10 points above the
\* baseline, and left the lesson active
C3_Witness ==
  /\ resp.op = "validate"
  /\ resp.code = 200
  /\ resp.stats.json.total_trades \in 1..4
  /\ ColTruthy(lessons[resp.id].stats_before)
  /\ DeltaGE(resp.stats.json.win_rate,
             JSONParse(lessons[resp.id].stats_before).win_rate, 10)
  /\ lessons[resp.id].status = "active"

\* C4: a successful validate call that counts at least 5 trades on a lesson with
\* a recorded baseline win rate sets validated when the win rate rose by 10
\* points or more, invalidated when it fell by 10 points or more, and leaves the
\* status unchanged for every delta strictly between.
C4_Boundaries ==
  [][(resp'.op = "validate" /\ resp'.code = 200)
     => LET l == lessons[resp'.id]
            S == CountedAfter(l)
            ta == Cardinality(S)
            before == JSONParse(l.stats_before).win_rate
            \* (wins / ta * 100 - before) * ta * before[2]
            num == WinsIn(S) * 100 * before[2] - before[1] * ta
            den == ta * before[2]
        IN (ta >= 5 /\ ColTruthy(l.stats_before))
           => lessons'[resp'.id].status =
                IF num >= 10 * den THEN "validated"
                ELSE IF num <= (-10) * den THEN "invalidated"
                ELSE l.status]_vars

\* a validate call found at least 5 trades and a delta of exactly +10 points,
\* and the lesson is validated
C4_Witness ==
  /\ resp.op = "validate"
  /\ resp.code = 200
  /\ resp.stats.json.total_trades >= 5
  /\ ColTruthy(lessons[resp.id].stats_before)
  /\ LET after == resp.stats.json.win_rate
         before == JSONParse(lessons[resp.id].stats_before).win_rate
     IN DeltaNum(after, before) = 10 * DeltaDen(after, before)
  /\ lessons[resp.id].status = "validated"

\* C5: no step changes stats_before or trade_count_before of an existing
\* lesson, and stats_after changes only in a successful validate call on that
\* lesson.
C5_SnapshotFrame ==
  [][\A i \in 1..Len(lessons) :
        /\ lessons'[i].stats_before = lessons[i].stats_before
        /\ lessons'[i].trade_count_before = lessons[i].trade_count_before
        /\ lessons'[i].stats_after # lessons[i].stats_after
           => (resp'.op = "validate" /\ resp'.id = i /\ resp'.code = 200)]_vars

\* an edit has replaced the conditions of a lesson that keeps both snapshots
C5_Witness ==
  /\ resp.op = "editLesson"
  /\ resp.code = 200
  /\ lessons[resp.id].conditions = JSONStringify(JsNull)
  /\ ColTruthy(lessons[resp.id].stats_before)
  /\ ColTruthy(lessons[resp.id].stats_after)

\* the conditions of a lesson as a reader of the API sees them are null
ConditionsNull(l) == JSONParse(l.conditions).js = "null"

\* C6: a validate call on a lesson whose conditions are null is rejected with a
\* validation error (400) and leaves the lesson row unchanged.
C6_NullConditionsRejected ==
  [][(/\ resp'.op = "validate"
      /\ resp'.id \in 1..Len(lessons)
      /\ ConditionsNull(lessons[resp'.id]))
     => (resp'.code = 400 /\ lessons' = lessons)]_vars

\* C7: a successful validate call persists the statistics of the trades it
\* counts, the returned status and trade_count_after = total_trades; a lesson
\* with a stats_after has trade_count_after equal to its total_trades, and a
\* lesson no validate call has written has stats_after NULL and
\* trade_count_after 0.
C7_AfterSnapshot ==
  /\ \A i \in 1..Len(lessons) :
        /\ ColTruthy(lessons[i].stats_after)
           => lessons[i].trade_count_after = JSONParse(lessons[i].stats_after).total_trades
        /\ i \notin validated
           => (lessons[i].stats_after = SqlNullStats /\ lessons[i].trade_count_after = 0)
  /\ (resp.op = "validate" /\ resp.code = 200)
     => LET l == lessons[resp.id]
            S == CountedAfter(l)
        IN /\ l.stats_after.sql = "TEXT"
           /\ JSONParse(l.stats_after).total_trades = Cardinality(S)
           /\ JSONParse(l.stats_after).wins = WinsIn(S)
           /\ JSONParse(l.stats_after).losses =
                Cardinality({i \in S : trades[i].outcome = "loss"})
           /\ l.trade_count_after = Cardinality(S)
           /\ l.stats_after = resp.stats
           /\ l.status = resp.status

\* a validate call has written a snapshot that leaves out a closed trade of an
\* earlier day
C7_Witness ==
  /\ resp.op = "validate"
  /\ resp.code = 200
  /\ lessons[resp.id].trade_count_after >= 1
  /\ lessons[resp.id].trade_count_after
       < Cardinality(MatchingClosed(JSONParse(lessons[resp.id].conditions), Null))

\* C8: a create-lesson request without a title or without a content is
\* answered 400 and leaves the lesson store as it was.
C8_MissingFieldsRejected ==
  [][resp'.op = "createLesson"
     => \A body \in LessonBodies :
           ((Falsy(body.title) \/ Falsy(body.content)) /\ CreateLesson(body))
           => (resp'.code = 400 /\ lessons' = lessons)]_vars

\* a create-lesson request was rejected while the store holds a lesson
C8_Witness ==
  /\ resp.op = "createLesson"
  /\ resp.code = 400
  /\ Len(lessons) >= 1

\* C9: a create-lesson request with conditions stores the statistics of all
\* closed trades matching them, whatever learned_at is, and
\* trade_count_before = total_trades; one without conditions stores
\* stats_before NULL and trade_count_before 0; the new lesson is active.
C9_BaselineAtCreation ==
  [][\A body \in LessonBodies :
        (resp'.op = "createLesson" /\ resp'.code = 201 /\ CreateLesson(body))
        => LET l == lessons'[Len(lessons')]
               S == MatchingClosed(body.conditions, Null)
           IN /\ l.status = "active"
              /\ IF body.conditions.js = "object"
                 THEN /\ l.stats_before.sql = "TEXT"
                      /\ JSONParse(l.stats_before).total_trades = Cardinality(S)
                      /\ JSONParse(l.stats_before).wins = WinsIn(S)
                      /\ l.trade_count_before = Cardinality(S)
                 ELSE /\ l.stats_before = SqlNullStats
                      /\ l.trade_count_before = 0]_vars

\* a lesson learned today was created with a baseline over the trades closed
\* on the earlier day
C9_Witness ==
  /\ resp.op = "createLesson"
  /\ resp.code = 201
  /\ lessons[resp.id].learned_at = DateText(Today)
  /\ lessons[resp.id].trade_count_before >= 4
  /\ \A i \in MatchingClosed(JSONParse(lessons[resp.id].conditions), Null) :
        trades[i].closed_at[1] < lessons[resp.id].learned_at.day

\* the attributes whose context value is non-empty and is one of the values
\* the conditions allow
MatchedAttributes(ctx, cond) ==
  {a \in {"setup", "session", "trigger", "emotion", "location"} :
     ~Falsy(ctx[a]) /\ ctx[a] \in cond[a]}

WeightSum(M) ==
  (IF "setup" \in M THEN 3 ELSE 0) + (IF "trigger" \in M THEN 3 ELSE 0)
  + (IF "session" \in M THEN 2 ELSE 0) + (IF "emotion" \in M THEN 2 ELSE 0)
  + (IF "location" \in M THEN 2 ELSE 0)

\* the context of the last scoring: the query's, or the created trade's fields
ScoredContext ==
  IF resp.op = "relevant" THEN resp.context ELSE TradeContext(trades[Len(trades)])

ExampleContext ==
  [setup |-> "Breakout", session |-> "London", trigger |-> "", emotion |-> "",
   location |-> ""]

\* C10: at both call sites every returned lesson carries the sum of the weights
\* (setup 3, trigger 3, session 2, emotion 2, location 2) of exactly the
\* attributes whose context value is non-empty and allowed by the lesson's
\* conditions, and matched_on lists exactly those attributes; the scorer gives
\* every candidate that sum, so a lesson left out scores 0 or lies beyond the
\* cap; the example context against {setup: [Breakout, FOMO], session: [NY Open]}
\* scores 3 with matched_on = [setup].
C10_RelevanceScore ==
  ((resp.op = "relevant" /\ resp.code = 200)
   \/ (resp.op = "createTrade" /\ resp.code = 201))
  => /\ \A k \in 1..Len(resp.relevant) :
          LET e == resp.relevant[k]
              M == MatchedAttributes(ScoredContext, JSONParse(lessons[e.id].conditions))
          IN /\ e.relevance_score = WeightSum(M)
             /\ {e.matched_on[j] : j \in 1..Len(e.matched_on)} = M
             /\ Len(e.matched_on) = Cardinality(M)
     /\ \A i \in 1..Len(lessons) :
          LET cond == JSONParse(lessons[i].conditions)
              M == MatchedAttributes(ScoredContext, cond)
          IN /\ ScoreLesson(ScoredContext, cond).relevance_score = WeightSum(M)
             /\ (WeightSum(M) > 0 /\ Len(lessons) <= CapTrade)
                => \E k \in 1..Len(resp.relevant) : resp.relevant[k].id = i
     /\ (resp.op = "relevant" /\ resp.context = ExampleContext)
        => \A i \in 1..Len(lessons) :
              lessons[i].conditions = JSONStringify(CondScenario)
              => \E k \in 1..Len(resp.relevant) :
                    resp.relevant[k] =
                      [id |-> i, relevance_score |-> 3, matched_on |-> <<"setup">>]

\* the example query was answered with the example lesson, and a second lesson
\* matched on session and emotion
C10_Witness ==
  /\ resp.op = "relevant"
  /\ resp.code = 200
  /\ resp.context = [ExampleContext EXCEPT !.emotion = "Calm"]
  /\ \E k \in 1..Len(resp.relevant) :
        /\ lessons[resp.relevant[k].id].conditions = JSONStringify(CondScenario)
        /\ resp.relevant[k].relevance_score = 3
        /\ resp.relevant[k].matched_on = <<"setup">>
  /\ \E k \in 1..Len(resp.relevant) :
        /\ resp.relevant[k].relevance_score = 4
        /\ resp.relevant[k].matched_on = <<"session", "emotion">>

\* a scorer call has answered: the query, or the scoring step of a creation
Scored ==
  \/ (resp.op = "relevant" /\ resp.code = 200)
  \/ (resp.op = "createTrade" /\ resp.code = 201)

\* C11: no lesson whose relevance score is 0 appears in the scorer output; a
\* context with no attribute set gives an empty list whatever lessons exist.
C11_ZeroScoreExcluded ==
  Scored
  => /\ \A k \in 1..Len(resp.relevant) :
          /\ resp.relevant[k].relevance_score > 0
          /\ WeightSum(MatchedAttributes(
                ScoredContext, JSONParse(lessons[resp.relevant[k].id].conditions))) > 0
     /\ (\A a \in DOMAIN ScoredContext : Falsy(ScoredContext[a]))
        => resp.relevant = <<>>

\* a query with an attribute set returned one of two lessons and left out the
\* other, a candidate whose conditions match nothing of the context
C11_Witness ==
  /\ resp.op = "relevant"
  /\ resp.code = 200
  /\ Len(lessons) = 2
  /\ Len(resp.relevant) = 1
  /\ \E i \in 1..Len(lessons) :
        /\ resp.relevant[1].id # i
        /\ lessons[i].status = "active"
        /\ JSONParse(lessons[i].conditions).js = "object"
        /\ MatchedAttributes(resp.context, JSONParse(lessons[i].conditions)) = {}

\* the cap of the call site that answered
ScoredCap == IF resp.op = "relevant" THEN 5 ELSE 3

\* the score the weights give lesson i for the scored context
ExpectedScore(i) ==
  IF lessons[i].status = "active" /\ lessons[i].conditions.sql = "TEXT"
  THEN WeightSum(MatchedAttributes(ScoredContext, JSONParse(lessons[i].conditions)))
  ELSE 0

ReturnedIds == {resp.relevant[k].id : k \in 1..Len(resp.relevant)}

\* C12: the scorer output holds at most cap lessons (3 for a trade creation, 5
\* for the query), each lesson once, and is a top-cap selection: a lesson with
\* a positive score is left out only when the output is full and holds no
\* lesson of a lower score.
C12_CapRespected ==
  Scored
  => /\ Len(resp.relevant) <= ScoredCap
     /\ Cardinality(ReturnedIds) = Len(resp.relevant)
     /\ \A i \in 1..Len(lessons) :
          (ExpectedScore(i) > 0 /\ i \notin ReturnedIds)
          => /\ Len(resp.relevant) = ScoredCap
             /\ \A k \in 1..Len(resp.relevant) :
                   resp.relevant[k].relevance_score >= ExpectedScore(i)

\* a query over six lessons returned five and left out a lesson that scores
\* less than a returned one
C12_Witness ==
  /\ resp.op = "relevant"
  /\ resp.code = 200
  /\ Len(lessons) = 6
  /\ Len(resp.relevant) = 5
  /\ \E i \in 1..Len(lessons) :
        /\ i \notin ReturnedIds
        /\ ExpectedScore(i) > 0
        /\ resp.relevant[1].relevance_score > ExpectedScore(i)

\* C13: the scorer output is in descending order of relevance_score, and
\* lessons of equal score keep the order of the candidate list (rowid order).
C13_StableOrder ==
  Scored
  => \A j, k \in 1..Len(resp.relevant) :
        j < k
        => /\ resp.relevant[j].relevance_score >= resp.relevant[k].relevance_score
           /\ resp.relevant[j].relevance_score = resp.relevant[k].relevance_score
              => resp.relevant[j].id < resp.relevant[k].id

\* an output where a later lesson of a higher score precedes an earlier one,
\* and two lessons tie
C13_Witness ==
  /\ Scored
  /\ \E j, k \in 1..Len(resp.relevant) :
        /\ j < k
        /\ resp.relevant[j].relevance_score > resp.relevant[k].relevance_score
        /\ resp.relevant[j].id > resp.relevant[k].id
  /\ \E j, k \in 1..Len(resp.relevant) :
        /\ j < k
        /\ resp.relevant[j].relevance_score = resp.relevant[k].relevance_score

\* the score response r reports for lesson i: 0 for a lesson it leaves out
ScoreIn(r, i) ==
  LET S == {k \in 1..Len(r.relevant) : r.relevant[k].id = i}
  IN IF S = {} THEN 0 ELSE r.relevant[CHOOSE k \in S : TRUE].relevance_score

\* context c2 is context c1 with one more attribute set
OneMoreAttribute(c1, c2) ==
  \E a \in DOMAIN c1 :
     /\ Falsy(c1[a])
     /\ ~Falsy(c2[a])
     /\ \A b \in DOMAIN c1 \ {a} : c1[b] = c2[b]

\* C14: between two answered queries over the same store, setting one more
\* context attribute lowers no lesson's score and clearing one raises none.
C14_ScoreMonotone ==
  [][(/\ resp.op = "relevant" /\ resp.code = 200
      /\ resp'.op = "relevant" /\ resp'.code = 200
      /\ lessons' = lessons
      /\ Len(lessons) <= 5)
     => \A i \in 1..Len(lessons) :
           /\ OneMoreAttribute(resp.context, resp'.context)
              => ScoreIn(resp', i) >= ScoreIn(resp, i)
           /\ OneMoreAttribute(resp'.context, resp.context)
              => ScoreIn(resp', i) <= ScoreIn(resp, i)]_vars

\* a query with three attributes set returned a lesson matched on one of them
\* and a lesson matched on two
C14_Witness ==
  /\ resp.op = "relevant"
  /\ resp.code = 200
  /\ Cardinality({a \in DOMAIN resp.context : ~Falsy(resp.context[a])}) = 3
  /\ \E k \in 1..Len(resp.relevant) : Len(resp.relevant[k].matched_on) = 1
  /\ \E k \in 1..Len(resp.relevant) : Len(resp.relevant[k].matched_on) = 2

\* C15: every lesson a scorer call returns is active and has conditions; a
\* lesson in status draft, validated, invalidated or archived is never
\* returned, so none is suggested once a validate call has moved it.
C15_ActiveOnly ==
  Scored
  => \A k \in 1..Len(resp.relevant) :
        LET l == lessons[resp.relevant[k].id]
        IN /\ l.status = "active"
           /\ l.conditions.sql = "TEXT"
           /\ JSONParse(l.conditions).js = "object"

\* a scorer call returned nothing while the store holds a lesson that a
\* validate call moved out of active (its note reports the win-rate change)
\* and whose conditions match the context
C15_Witness ==
  /\ Scored
  /\ resp.relevant = <<>>
  /\ \E i \in 1..Len(lessons) :
        /\ i \in validated
        /\ lessons[i].status \in {"validated", "invalidated"}
        /\ lessons[i].validation_note.kind \in {"improved", "decreased"}
        /\ MatchedAttributes(ScoredContext, JSONParse(lessons[i].conditions)) # {}

\* C16: the statistics helper counts exactly the closed trades that satisfy
\* every non-empty attribute constraint of the conditions (emotion against
\* initial_emotion); an empty list constrains nothing and an open trade is
\* never counted. At creation the count is over every date; at read and
\* validate it is over the matching closed trades from the learned_at day on,
\* with or without those closed on that day itself.
C16_CountsMatchingClosed ==
  /\ (resp.op = "createLesson" /\ resp.code = 201
      /\ ColTruthy(lessons[resp.id].stats_before))
     => LET S == MatchingClosed(JSONParse(lessons[resp.id].conditions), Null)
            st == JSONParse(lessons[resp.id].stats_before)
        IN /\ st.total_trades = Cardinality(S)
           /\ st.wins = WinsIn(S)
           /\ st.losses = Cardinality({i \in S : trades[i].outcome = "loss"})
  /\ (resp.op \in {"getLesson", "validate"} /\ resp.code = 200
      /\ ColTruthy(resp.stats))
     => LET cond == JSONParse(lessons[resp.id].conditions)
            day == lessons[resp.id].learned_at.day
        IN JSONParse(resp.stats).total_trades
             \in {Cardinality(MatchingClosed(cond, Some(day))),
                  Cardinality(MatchingClosed(cond, Some(day + 1)))}

\* a lesson over all five attributes was created with one trade counted while
\* the store also holds an open trade that satisfies all five constraints
C16_Witness ==
  /\ resp.op = "createLesson"
  /\ resp.code = 201
  /\ lessons[resp.id].conditions = JSONStringify(CondFive)
  /\ lessons[resp.id].trade_count_before = 1
  /\ \E i \in 1..Len(trades) :
        /\ trades[i].status = "open"
        /\ trades[i].setup = "Breakout" /\ trades[i].session = "NY Open"
        /\ trades[i].trigger = "Retest" /\ trades[i].location = "Range low"
        /\ trades[i].initial_emotion = "Calm"

\* C17: the stats_after a validate call computes counts exactly the matching
\* closed trades whose closing date is on or after learned_at, the learned_at
\* date itself included, while stats_before counted those of every date.
C17_SinceLearnedInclusive ==
  (resp.op = "validate" /\ resp.code = 200)
  => LET l == lessons[resp.id]
         cond == JSONParse(l.conditions)
         day == l.learned_at.day
     IN /\ JSONParse(l.stats_after).total_trades
             = Cardinality(MatchingClosed(cond, Some(day)))
        /\ JSONParse(l.stats_before).total_trades
             <= Cardinality(MatchingClosed(cond, Null))

\* the snapshots a state holds: both snapshots of every lesson and the
\* statistics of the last response
Snapshots ==
  {JSONParse(lessons[i].stats_before) :
     i \in {j \in 1..Len(lessons) : ColTruthy(lessons[j].stats_before)}}
  \cup {JSONParse(lessons[i].stats_after) :
          i \in {j \in 1..Len(lessons) : ColTruthy(lessons[j].stats_after)}}
  \cup (IF ColTruthy(resp.stats) THEN {JSONParse(resp.stats)} ELSE {})

\* C18: every snapshot has 0 <= win_rate <= 100 and wins + losses <=
\* total_trades; with no trade win_rate and avg_pnl are 0, otherwise
\* win_rate = wins / total_trades * 100 and avg_pnl = total_pnl / total_trades.
C18_WinRateBounds ==
  \A st \in Snapshots :
     /\ st.win_rate[2] > 0
     /\ st.avg_pnl[2] > 0
     /\ 0 <= st.win_rate[1]
     /\ st.win_rate[1] <= 100 * st.win_rate[2]
     /\ st.wins + st.losses <= st.total_trades
     /\ IF st.total_trades = 0
        THEN st.win_rate[1] = 0 /\ st.avg_pnl[1] = 0
        ELSE /\ st.win_rate[1] * st.total_trades = st.wins * 100 * st.win_rate[2]
             /\ st.avg_pnl[1] * st.total_trades = st.total_pnl * st.avg_pnl[2]

\* a validate call computed a snapshot over a won and a breakeven trade for a
\* lesson whose baseline has fewer trades
C18_Witness ==
  /\ resp.op = "validate"
  /\ resp.code = 200
  /\ JSONParse(resp.stats).total_trades = 2
  /\ JSONParse(resp.stats).wins = 1
  /\ JSONParse(resp.stats).losses = 0
  /\ ColTruthy(lessons[resp.id].stats_before)
  /\ JSONParse(lessons[resp.id].stats_before).total_trades < 2

\* C19: the lesson requests (create, read, edit, archive, validate, relevant)
\* leave the trade store as it was, and the relevant-lessons query and a trade
\* creation with its scoring step leave every lesson row as it was.
C19_LessonEngineFrame ==
  [][/\ resp'.op \in {"createLesson", "getLesson", "editLesson", "archiveLesson",
                      "validate", "relevant"}
        => (trades' = trades /\ tradeSeq' = tradeSeq /\ trading_days' = trading_days)
     /\ resp'.op \in {"relevant", "createTrade"} => lessons' = lessons]_vars

\* a query has returned a lesson of a store that holds closed trades
C19_Witness ==
  /\ resp.op = "relevant"
  /\ resp.code = 200
  /\ Len(resp.relevant) >= 1
  /\ lessons[resp.relevant[1].id].status = "active"
  /\ \E i \in 1..Len(trades) : trades[i].status = "closed"

\* C20: a successful trade creation and a successful trade close both answer
\* with relevant_lessons, the scorer output for the trade's context with cap
\* 3: every active lesson whose conditions match the trade is listed (the
\* store holds no more than 3 lessons), and only such lessons are.
C20_SuggestionsOnCreateAndClose ==
  ((resp.op = "createTrade" /\ resp.code = 201)
   \/ (resp.op = "closeTrade" /\ resp.code = 200))
  => LET t == trades[CHOOSE k \in TradeIndex(trades, resp.id) : TRUE]
         score(i) ==
           IF lessons[i].status = "active" /\ lessons[i].conditions.sql = "TEXT"
           THEN WeightSum(MatchedAttributes(TradeContext(t),
                                            JSONParse(lessons[i].conditions)))
           ELSE 0
     IN /\ Len(resp.relevant) <= 3
        /\ \A k \in 1..Len(resp.relevant) : score(resp.relevant[k].id) > 0
        /\ Len(lessons) <= 3
           => \A i \in 1..Len(lessons) :
                 score(i) > 0 => \E k \in 1..Len(resp.relevant) : resp.relevant[k].id = i

\* C22: the two scorer call sites agree. When a trade creation has answered
\* with its suggestions and the next request is a relevant-lessons query for
\* the context of that trade (emotion = initial_emotion, an absent field of the
\* trade absent in the query), the first 3 entries of the query's list are the
\* suggestions: same lesson ids, relevance_score and matched_on, same order.
SameText(a, b) == (Falsy(a) /\ Falsy(b)) \/ a = b

SameContext(ctx, t) ==
  /\ SameText(ctx.setup, t.setup)
  /\ SameText(ctx.session, t.session)
  /\ SameText(ctx.trigger, t.trigger)
  /\ SameText(ctx.emotion, t.initial_emotion)
  /\ SameText(ctx.location, t.location)

C22_CallSitesAgree ==
  [][(/\ resp.op = "createTrade"
      /\ resp.code = 201
      /\ resp'.op = "relevant"
      /\ resp'.code = 200
      /\ \E k \in TradeIndex(trades, resp.id) : SameContext(resp'.context, trades[k]))
     => Slice(resp'.relevant, CapTrade) = resp.relevant]_vars

\* a query for the context of the trade just created has listed more lessons
\* than the suggestions hold
C22_Witness ==
  /\ resp.op = "relevant"
  /\ resp.code = 200
  /\ Len(resp.relevant) > CapTrade
  /\ resp.relevant[1].relevance_score > resp.relevant[Len(resp.relevant)].relevance_score
  /\ trades # <<>>
  /\ SameContext(resp.context, trades[Len(trades)])

\* the validate route would answer 200 for lesson i
Validatable(store, i) ==
  /\ i \in 1..Len(store)
  /\ ColTruthy(store[i].conditions)
  /\ ~StatsThrows(JSONParse(store[i].conditions))

\* C21: validation of different lessons needs no coordination. A validate call
\* on lesson A changes no field of any other lesson and adds or removes no
\* lesson, and for every other lesson B the store after validate(A) then
\* validate(B) is the store after validate(B) then validate(A). (Each handler
\* is synchronous, so a validate call is one step.)
C21_ValidateIndependent ==
  [][(resp'.op = "validate" /\ resp'.code = 200)
     => /\ Len(lessons') = Len(lessons)
        /\ \A i \in 1..Len(lessons) : i # resp'.id => lessons'[i] = lessons[i]
        /\ \A b \in 1..Len(lessons) :
              (b # resp'.id /\ Validatable(lessons, b))
              => ValidatedStore(lessons', b, trades)
                 = ValidatedStore(ValidatedStore(lessons, b, trades), resp'.id, trades)]_vars

\* both lessons of the store have been validated in this run, over the same
\* trades, with different outcomes
C21_Witness ==
  /\ resp.op = "validate"
  /\ resp.code = 200
  /\ Len(lessons) = 2
  /\ validated = {1, 2}
  /\ {lessons[1].title, lessons[2].title} = {"Even", "Fresh"}
  /\ {lessons[1].status, lessons[2].status} = {"invalidated", "validated"}

\* C23: a validate call on a lesson without a recorded baseline (stats_before
\* is NULL) whose conditions are a conditions object answers 200 and leaves the
\* status as it was; when it counts at least 5 matching trades the note it
\* persists and returns is empty. So a lesson created without conditions and
\* given conditions by an edit validates without error, and no validate call
\* changes its status.
C23_NoBaselineNoDecision ==
  [][(/\ resp'.op = "validate"
      /\ resp'.id \in 1..Len(lessons)
      /\ ~ColTruthy(lessons[resp'.id].stats_before))
     => LET l == lessons[resp'.id]
        IN /\ (ColTruthy(l.conditions) /\ JSONParse(l.conditions).js = "object")
              => resp'.code = 200
           /\ lessons'[resp'.id].status = l.status
           /\ (resp'.code = 200 /\ Cardinality(CountedAfter(l)) >= 5)
              => /\ lessons'[resp'.id].validation_note = Note("", 0)
                 /\ resp'.note = Note("", 0)]_vars

\* a lesson created without conditions has received conditions by an edit, a
\* validate call has counted the five closed trades, a win rate of 60, and the
\* lesson is active with an empty note
C23_Witness ==
  /\ resp.op = "validate"
  /\ resp.code = 200
  /\ ~ColTruthy(lessons[resp.id].stats_before)
  /\ ColTruthy(lessons[resp.id].conditions)
  /\ resp.stats.json.total_trades >= 5
  /\ resp.stats.json.wins = 3
  /\ lessons[resp.id].status = "active"
  /\ lessons[resp.id].validation_note = Note("", 0)

\* C24: validated and invalidated are not terminal. A successful validate call
\* on a validated lesson that counts at least 5 trades with a delta of -10 or
\* less sets invalidated, one on an invalidated lesson with a delta of +10 or
\* more sets validated, and one that counts fewer than 5 trades or a delta
\* strictly between keeps the validated or invalidated status; none sets
\* active.
C24_NotTerminal ==
  [][(/\ resp'.op = "validate"
      /\ resp'.code = 200
      /\ lessons[resp'.id].status \in {"validated", "invalidated"}
      /\ ColTruthy(lessons[resp'.id].stats_before))
     => LET l == lessons[resp'.id]
            S == CountedAfter(l)
            ta == Cardinality(S)
            before == JSONParse(l.stats_before).win_rate
            num == WinsIn(S) * 100 * before[2] - before[1] * ta
            den == ta * before[2]
            new == lessons'[resp'.id].status
        IN /\ new # "active"
           /\ (l.status = "validated" /\ ta >= 5 /\ num <= (-10) * den)
              => new = "invalidated"
           /\ (l.status = "invalidated" /\ ta >= 5 /\ num >= 10 * den)
              => new = "validated"
           /\ (ta < 5 \/ ((-10) * den < num /\ num < 10 * den))
              => new = l.status]_vars

\* the lesson an earlier run validated is invalidated, and the lesson an
\* earlier run invalidated is validated
C24_Witness ==
  /\ resp.op = "validate"
  /\ resp.code = 200
  /\ lessons[resp.id].title = "Disproven"
  /\ lessons[resp.id].status = "validated"
  /\ resp.note = Note("improved", 0)
  /\ \E i \in 1..Len(lessons) :
        /\ lessons[i].title = "Proven"
        /\ lessons[i].status = "invalidated"
        /\ lessons[i].validation_note = Note("decreased", 0)

\* C25: scoring never fails. Over every lesson store that lesson create, edit,
\* archive and validate produce, a relevant-lessons query answers 200 with a
\* list, and a trade creation that has inserted its trade answers 201 with a
\* list, never 500.
C25_ScoringNeverFails ==
  /\ resp.op = "relevant" => resp.code = 200
  /\ (resp.op = "createTrade" /\ resp.id # 0)
     => (resp.code = 201 /\ \E k \in 1..Len(trades) : trades[k].id = resp.id)

\* the sequence numbers the trades of day Today hold
DaySequences(rows) ==
  {rows[i].trade_number[2] : i \in {k \in 1..Len(rows) : rows[k].trade_number[1] = Today}}

\* C26: every trade creation with a valid body succeeds with a trade number
\* <date>-T<n> no other trade holds, n one more than the highest sequence
\* number among the other trades of that date (1 when there is none), also for
\* the 10th, 11th and later trades of a day.
C26_NumberingUnique ==
  /\ \A i, j \in 1..Len(trades) :
        i # j => trades[i].trade_number # trades[j].trade_number
  /\ resp.op = "createTrade" => resp.code \in {201, 400}
  /\ (resp.op = "createTrade" /\ resp.code = 201)
     => LET k == CHOOSE k \in TradeIndex(trades, resp.id) : TRUE
            others == DaySequences(RemoveAt(trades, k))
        IN /\ trades[k].trade_number[1] = Today
           /\ \A n \in others : n < trades[k].trade_number[2]
           /\ trades[k].trade_number[2] - 1 \in others \cup {0}

\* C27: validate is idempotent. When a successful validate call on a lesson
\* is followed at once by another validate call on the same lesson, the second
\* call returns the status, note and stats_after of the first and leaves the
\* lesson store as the first call left it (updated_at is not modelled).
C27_ValidateIdempotent ==
  [][(/\ resp.op = "validate"
      /\ resp.code = 200
      /\ resp'.op = "validate"
      /\ resp'.id = resp.id)
     => (resp' = resp /\ lessons' = lessons)]_vars

\* a validate call has moved a lesson created in an earlier run to invalidated
\* and the row holds what the response reports
C27_Witness ==
  /\ resp.op = "validate"
  /\ resp.code = 200
  /\ lessons[resp.id].title = "Even"
  /\ resp.status = "invalidated"
  /\ lessons[resp.id].status = resp.status
  /\ lessons[resp.id].validation_note = resp.note
  /\ lessons[resp.id].stats_after = resp.stats
  /\ lessons[resp.id].trade_count_after = 5

\* the stored snapshots of lesson row l hold at least 5 counted trades and
\* win rates 10 points or more apart
DecidedOnEvidence(l) ==
  /\ l.trade_count_after >= 5
  /\ ColTruthy(l.stats_before)
  /\ ColTruthy(l.stats_after)
  /\ LET before == JSONParse(l.stats_before).win_rate
         after == JSONParse(l.stats_after).win_rate
     IN DeltaGE(after, before, 10) \/ DeltaLE(after, before, -10)

\* C28 as stated: in every state that lesson create, validate and archive
\* and trade create, close and delete reach, a validated or invalidated lesson
\* has trade_count_after >= 5 and a stored stats_after whose win_rate differs
\* from stats_before.win_rate by at least 10 points.
C28_DecidedHasEvidence ==
  \A i \in 1..Len(lessons) :
     lessons[i].status \in {"validated", "invalidated"} => DecidedOnEvidence(lessons[i])

\* C28 as amended: the snapshots hold that evidence at the end of every
\* validate call that moves the lesson to validated or to invalidated; a later
\* validate call that keeps the status stores what it counts, which may be
\* fewer than 5 trades or a smaller difference.
C28_EvidenceWhenDecided ==
  [][(/\ resp'.op = "validate"
      /\ resp'.code = 200
      /\ lessons'[resp'.id].status \in {"validated", "invalidated"}
      /\ lessons'[resp'.id].status # lessons[resp'.id].status)
     => DecidedOnEvidence(lessons'[resp'.id])]_vars

\* a validate call of this run has validated the lesson created over one win
\* and one loss: five trades counted, a win rate of 60 against 50
C28_Witness ==
  /\ resp.op = "validate"
  /\ resp.code = 200
  /\ lessons[resp.id].title = "Even"
  /\ lessons[resp.id].status = "validated"
  /\ lessons[resp.id].trade_count_after = 5
  /\ JSONParse(lessons[resp.id].stats_after).wins = 3
  /\ JSONParse(lessons[resp.id].stats_before).win_rate = <<100, 2>>

\* C29: a lesson whose baseline win rate is 0 is never moved to invalidated by
\* a validate call, and a successful validate call that counts at least 5
\* matching trades of which at least 10% are won moves it to validated.
C29_ZeroBaseline ==
  [][(/\ resp'.op = "validate"
      /\ resp'.code = 200
      /\ ColTruthy(lessons[resp'.id].stats_before)
      /\ JSONParse(lessons[resp'.id].stats_before).win_rate[1] = 0)
     => LET l == lessons[resp'.id]
            S == CountedAfter(l)
            new == lessons'[resp'.id].status
        IN /\ new = "invalidated" => l.status = "invalidated"
           /\ (Cardinality(S) >= 5 /\ WinsIn(S) * 100 >= 10 * Cardinality(S))
              => new = "validated"]_vars

\* the lesson created when no closed trade matched has been validated over
\* five trades of which two are won, and a later call over fewer trades has
\* kept it validated
C29_Witness ==
  /\ resp.op = "validate"
  /\ resp.code = 200
  /\ lessons[resp.id].title = "Fresh"
  /\ lessons[resp.id].trade_count_before = 0
  /\ lessons[resp.id].status = "validated"
  /\ resp.note.kind = "need more"

\* the row of the trade with this id, in a store that holds it
TradeRow(rows, id) == rows[CHOOSE k \in TradeIndex(rows, id) : TRUE]

\* a closed trade has closed_at and an outcome that agrees with its pnl
ClosedTradeOK(t) ==
  t.status = "closed"
  => /\ t.closed_at # Null
     /\ t.outcome \in {"win", "loss", "breakeven"}
     /\ t.outcome = "win" => (t.pnl # Null /\ t.pnl[1] > 0)
     /\ t.outcome = "loss" => (t.pnl # Null /\ t.pnl[1] < 0)

====
